---- MODULE Spec2Model ----
(***************************************************************************)
(* Model of prover_v2/verification.py: extract_lean_code (a pure function  *)
(* over text), and process_jsonl_file (the batch run against the external  *)
(* Lean4ServerScheduler).  Text is a sequence of one-character strings, so *)
(* that split, strip and the two regular expressions are computed          *)
(* character by character as Python computes them.                         *)
(***************************************************************************)
EXTENDS Integers, Sequences, FiniteSets, TLC

VARIABLES
    \* ---- process_jsonl_file ----
    pc,                 \* position of the run
    lean_workspace_ok,  \* os.path.exists(lean_workspace)
    file_readable,      \* open(file_path) succeeds
    file_lines,         \* f.readlines() of the input file
    max_entries,        \* the max_entries argument (0 stands for None)
    lines,              \* lines after the max_entries cut
    i,                  \* number of lines the submission loop has consumed
    entries,            \* the entries list
    request_ids,        \* the request_ids list of (request_id, i, lean_code)
    results,            \* the results list
    outputs,            \* what get_all_request_outputs returned
    k,                  \* number of (request, output) pairs consumed by zip
    scheduler,          \* the external Lean4ServerScheduler
    exc,                \* the exception in flight ("" when none)
    returned,           \* the value process_jsonl_file returned
    output_file,        \* the results file written at the end
    \* ---- extract_lean_code applied to one input ----
    response,           \* the response argument
    header,             \* the header argument
    extracted,          \* what the call produced
    xpc,                \* "in" before the call, "out" after it
    \* ---- format_error_check applied to one input ----
    fmt_output,         \* the output argument
    fmt_status,         \* the status argument
    fmt_text,           \* the text the call returned
    fpc                 \* "in" before the call, "out" after it

vars == <<pc, lean_workspace_ok, file_readable, file_lines, max_entries, lines,
          i, entries, request_ids, results, outputs, k, scheduler, exc,
          returned, output_file, response, header, extracted, xpc,
          fmt_output, fmt_status, fmt_text, fpc>>

procVars == <<pc, lean_workspace_ok, file_readable, file_lines, max_entries,
              lines, i, entries, request_ids, results, outputs, k, scheduler,
              exc, returned, output_file>>

extractVars == <<response, header, extracted, xpc>>

formatVars == <<fmt_output, fmt_status, fmt_text, fpc>>

----------------------------------------------------------------------------
(* Bounds *)

MaxLines == 3        \* lines in the input file
MaxRespSegs == 3     \* segments a generated response is built from
MaxHdrSegs == 3      \* segments a generated header is built from
MaxDiags == 2        \* errors, warnings and sorries of a generated outcome

----------------------------------------------------------------------------
(* Text: Python str operations used by the source.  The backquote         *)
(* character cannot be written in a TLA+ string; the one-character string  *)
(* "'" stands for it throughout, and no text of the model uses a real      *)
(* apostrophe.                                                             *)

assign == <<":", "=">>
sorry == <<"s", "o", "r", "r", "y">>
fence == <<"'", "'", "'">>
fence_lean == <<"'", "'", "'", "l", "e", "a", "n">>
fence_lean4 == <<"'", "'", "'", "l", "e", "a", "n", "4">>
marker == <<"#", "#", "#", " ", "C", "o", "m", "p", "l", "e", "t", "e", " ", "L", "e", "a", "n", " ", "4", " ", "P", "r", "o", "o", "f", "\n", "\n">>

\* str.isspace / the regex class \s, on the characters the model uses
IsSpace(c) == c \in {" ", "\n", "\t"}

RECURSIVE lstrip(_)
lstrip(s) ==
    IF s # <<>> /\ IsSpace(Head(s)) THEN lstrip(Tail(s)) ELSE s

RECURSIVE rstrip(_)
rstrip(s) ==
    IF s # <<>> /\ IsSpace(s[Len(s)]) THEN rstrip(SubSeq(s, 1, Len(s) - 1)) ELSE s

strip(s) == rstrip(lstrip(s))

\* s[a:] with a 1-based
From(s, a) == SubSeq(s, a, Len(s))

MatchAt(s, p, a) == a >= 1 /\ a + Len(p) - 1 <= Len(s) /\ SubSeq(s, a, a + Len(p) - 1) = p

startswith(s, p) == MatchAt(s, p, 1)

\* str.find from position a (1-based); 0 when absent
RECURSIVE find(_, _, _)
find(s, p, a) ==
    IF a + Len(p) - 1 > Len(s) THEN 0
    ELSE IF MatchAt(s, p, a) THEN a
    ELSE find(s, p, a + 1)

\* str.rfind scanning down from position a; 0 when absent
RECURSIVE rfind(_, _, _)
rfind(s, p, a) ==
    IF a < 1 THEN 0
    ELSE IF MatchAt(s, p, a) THEN a
    ELSE rfind(s, p, a - 1)

\* p in s
contains(s, p) == find(s, p, 1) # 0

\* str.split(sep, maxsplit); maxsplit = -1 for no limit
RECURSIVE split(_, _, _)
split(s, sep, maxsplit) ==
    LET a == find(s, sep, 1) IN
    IF maxsplit = 0 \/ a = 0 THEN <<s>>
    ELSE <<SubSeq(s, 1, a - 1)>> \o split(From(s, a + Len(sep)), sep, maxsplit - 1)

\* str.rsplit(sep, 1)
rsplit1(s, sep) ==
    LET a == rfind(s, sep, Len(s)) IN
    IF a = 0 THEN <<s>>
    ELSE <<SubSeq(s, 1, a - 1), From(s, a + Len(sep))>>

Last(q) == q[Len(q)]

----------------------------------------------------------------------------
(* extract_lean_code *)

\* a response is a str (isList FALSE, turns = <<text>>) or a list of str
Str(t) == [isList |-> FALSE, turns |-> <<t>>]
List(ts) == [isList |-> TRUE, turns |-> ts]

\* the two outcomes of a call: a returned str, or the ValueError
Return(t) == [tag |-> "return", text |-> t]
Raise == [tag |-> "ValueError", text |-> <<>>]

\* the scanned text taken from the first turn of a list
response_text_first(r) ==
    IF r.isList
    THEN IF r.turns # <<>> THEN r.turns[1] ELSE <<>>
    ELSE r.turns[1]

response_text(r) ==
    IF r.isList
    THEN IF r.turns # <<>> THEN Last(r.turns) ELSE <<>>
    ELSE r.turns[1]

\* the excerpt found after the marker
marker_code(rt) ==
    IF contains(rt, marker)
    THEN LET after_marker == rsplit1(rt, marker)[2] IN
         IF startswith(lstrip(after_marker), fence_lean4)
         THEN LET parts == split(lstrip(after_marker), fence_lean4, 1) IN
              IF Len(parts) > 1
              THEN strip(split(parts[2], fence, -1)[1])
              ELSE <<>>
         ELSE <<>>
    ELSE <<>>

\* the fallback scan taking the first fence of the text instead of the last
fence_code_first(rt) ==
    IF contains(rt, fence_lean4)
    THEN LET parts == split(rt, fence_lean4, -1) IN
         IF Len(parts) > 1 THEN strip(split(parts[2], fence, -1)[1]) ELSE <<>>
    ELSE IF contains(rt, fence_lean)
    THEN LET parts == split(rt, fence_lean, -1) IN
         IF Len(parts) > 1 THEN strip(split(parts[2], fence, -1)[1]) ELSE <<>>
    ELSE <<>>

\* the excerpt found by the fallback scan of the whole text
fence_code(rt) ==
    IF contains(rt, fence_lean4)
    THEN LET parts == split(rt, fence_lean4, -1) IN
         IF Len(parts) > 1 THEN strip(split(Last(parts), fence, -1)[1]) ELSE <<>>
    ELSE IF contains(rt, fence_lean)
    THEN LET parts == split(rt, fence_lean, -1) IN
         IF Len(parts) > 1 THEN strip(split(Last(parts), fence, -1)[1]) ELSE <<>>
    ELSE <<>>

extracted_code(rt) ==
    LET m == marker_code(rt) IN
    IF m # <<>> THEN m ELSE fence_code(rt)

\* re.search(r":=\s*(.*)", extracted_code, re.DOTALL)
proof_body_match(code) == contains(code, assign)

\* the proof body taken after the last assignment operator of the excerpt
proof_body_last(code) ==
    strip(lstrip(From(code, rfind(code, assign, Len(code)) + Len(assign))))

\* proof_body_match.group(1).strip()
proof_body(code) ==
    strip(lstrip(From(code, find(code, assign, 1) + Len(assign))))

\* the end (exclusive) of a match of r":=\s*sorry" starting at a; 0 if none
sorry_match_end(h, a) ==
    IF MatchAt(h, assign, a)
    THEN LET rest == From(h, a + Len(assign))
             skipped == Len(rest) - Len(lstrip(rest))
             b == a + Len(assign) + skipped
         IN IF MatchAt(h, sorry, b) THEN b + Len(sorry) ELSE 0
    ELSE 0

\* sorry_pattern.finditer(header): the spans <<start, end>>, left to right,
\* each search resuming where the previous match ended
RECURSIVE finditer(_, _)
finditer(h, a) ==
    IF a > Len(h) THEN <<>>
    ELSE LET e == sorry_match_end(h, a) IN
         IF e # 0 THEN <<<<a, e>>>> \o finditer(h, e)
         ELSE finditer(h, a + 1)

\* splice writing the proof body right after the operator, without the space
splice_no_space(h, body) ==
    LET matches == finditer(h, 1)
        new_code == IF matches # <<>>
                    THEN LET m == Last(matches) IN
                         SubSeq(h, 1, m[1] - 1) \o assign \o body \o From(h, m[2])
                    ELSE h
    IN IF Len(matches) = 1 THEN Return(strip(new_code)) ELSE Raise

\* splice keeping the last-occurrence splice whenever there is a match
splice_keep_last(h, body) ==
    LET matches == finditer(h, 1)
        new_code == IF matches # <<>>
                    THEN LET m == Last(matches) IN
                         SubSeq(h, 1, m[1] - 1) \o assign \o <<" ">> \o body
                             \o From(h, m[2])
                    ELSE h
    IN IF Len(matches) >= 1 THEN Return(strip(new_code)) ELSE Raise

\* lines 45-60: splice at the last match, keep it only for one match
splice(h, body) ==
    LET matches == finditer(h, 1)
        num_match == Len(matches)
        new_code == IF matches # <<>>
                    THEN LET m == Last(matches) IN
                         SubSeq(h, 1, m[1] - 1) \o assign \o <<" ">> \o body
                             \o From(h, m[2])
                    ELSE h
    IN IF num_match = 1 THEN Return(strip(new_code)) ELSE Raise

\* extract_lean_code counting the placeholders before it looks for a body
extract_lean_code_count_first(r, h) ==
    LET code == extracted_code(response_text(r)) IN
    IF code = <<>> THEN Return(<<>>)
    ELSE IF Len(finditer(h, 1)) # 1 THEN Raise
    ELSE IF ~proof_body_match(code) THEN Return(strip(h))
    ELSE splice(h, proof_body(code))

extract_lean_code(r, h) ==
    LET code == extracted_code(response_text(r)) IN
    IF code = <<>> THEN Return(<<>>)
    ELSE IF ~proof_body_match(code) THEN Return(strip(h))
    ELSE splice(h, proof_body(code))

----------------------------------------------------------------------------
(* Inputs of extract_lean_code *)

RECURSIVE Concats(_, _)
\* the texts made of at most n segments of S
Concats(S, n) ==
    IF n = 0 THEN {<<>>}
    ELSE LET P == Concats(S, n - 1) IN P \cup {p \o s : p \in P, s \in S}

placeholder == assign \o <<" ">> \o sorry

RespSegs == {fence_lean4, fence_lean, fence, assign, <<" ">>, <<"a">>, marker}
HdrSegs == {placeholder, assign, sorry, <<" ">>, <<"a">>}

Skel6 == <<"t", "h", "e", "o", "r", "e", "m", " ", "t", " ", ":", " ", "P", " ", ":", "=", " ", "b", "y", " ", "s", "o", "r", "r", "y">>
Skel6b == <<"t", "h", "e", "o", "r", "e", "m", " ", "t", " ", ":", " ", "P", " ", ":", "=", " ", "s", "o", "r", "r", "y">>
Block6 == <<"t", "h", "e", "o", "r", "e", "m", " ", "t", " ", ":", " ", "P", " ", ":", "=", " ", "b", "y", " ", "e", "x", "a", "c", "t", " ", "h">>
Resp6 == <<"P", "r", "o", "o", "f", ":", "\n", "'", "'", "'", "l", "e", "a", "n", "4", "\n">> \o Block6 \o <<"\n", "'", "'", "'", "\n", "D", "o", "n", "e", ".">>
RespNoAssign == <<"'", "'", "'", "l", "e", "a", "n", "4", "\n", "e", "x", "a", "c", "t", " ", "h", "\n", "'", "'", "'">>
RespLoose == <<"'", "'", "'", "l", "e", "a", "n", "\n", "x", " ", ":", "=", " ", "b", "y", " ", "s", "i", "m", "p", "\n", "'", "'", "'">>
RespMarker == <<"'", "'", "'", "l", "e", "a", "n", "4", "\n", "y", " ", ":", "=", " ", "1", "\n", "'", "'", "'", "\n">> \o marker \o <<" ", "'", "'", "'", "l", "e", "a", "n", "4", "\n", "z", " ", ":", "=", " ", "b", "y", " ", "r", "f", "l", "'", "'", "'">>
RespEmptyMarkerFence == marker \o <<"'", "'", "'", "l", "e", "a", "n", "4", "\n", "'", "'", "'", "\n", "'", "'", "'", "l", "e", "a", "n", "4", "\n", "w", " ", ":", "=", " ", "2", "\n", "'", "'", "'">>
RespNoFence == <<"I", " ", "c", "a", "n", "n", "o", "t", " ", "p", "r", "o", "v", "e", " ", "i", "t", ".">>
SkelTwo == <<"l", "e", "m", "m", "a", " ", "a", " ", ":", " ", "P", " ", ":", "=", " ", "s", "o", "r", "r", "y", "\n", "l", "e", "m", "m", "a", " ", "b", " ", ":", " ", "Q", " ", ":", "=", "\n", " ", " ", "s", "o", "r", "r", "y", "\n">>
SkelMid == <<" ", "l", "e", "m", "m", "a", " ", "a", " ", ":", " ", "P", " ", ":", "=", "\n", " ", " ", "s", "o", "r", "r", "y", "\n", "l", "e", "m", "m", "a", " ", "b", " ", ":", " ", "Q", " ", ":", "=", " ", "b", "y", " ", "s", "i", "m", "p", "\n">>
SkelNone == <<" ", "t", "h", "e", "o", "r", "e", "m", " ", "t", " ", ":", " ", "P", " ", "\n">>

FewTexts == {Resp6, RespNoAssign, RespLoose, RespMarker, RespEmptyMarkerFence,
             RespNoFence, <<>>}
FewHeaders == {Skel6, Skel6b, SkelMid, SkelTwo, SkelNone}

GenResponses ==
    {Str(t) : t \in Concats(RespSegs, MaxRespSegs)}
        \cup {Str(t) : t \in FewTexts}
        \cup {List(<<>>)}
        \cup {List(<<t>>) : t \in FewTexts}
        \cup {List(<<t, u>>) : t \in FewTexts, u \in FewTexts}
GenHeaders == Concats(HdrSegs, MaxHdrSegs)

----------------------------------------------------------------------------
(* The specification of one call of extract_lean_code *)

ProcIdle ==
    /\ pc = "idle"
    /\ lean_workspace_ok = FALSE
    /\ file_readable = FALSE
    /\ file_lines = <<>>
    /\ max_entries = 0
    /\ lines = <<>>
    /\ i = 0
    /\ entries = <<>>
    /\ request_ids = <<>>
    /\ results = <<>>
    /\ outputs = <<>>
    /\ k = 0
    /\ scheduler = [acquired |-> 0, closed |-> 0, submitted |-> <<>>,
                    awaited |-> <<>>, produced |-> <<>>, late |-> 0]
    /\ exc = ""
    /\ returned = [has |-> FALSE, value |-> <<>>]
    /\ output_file = [written |-> FALSE, records |-> <<>>]

\* no call of format_error_check is modelled
FormatIdle ==
    /\ fpc = "idle"
    /\ fmt_status = ""
    /\ fmt_text = <<>>
    /\ fmt_output = [pass |-> FALSE, complete |-> FALSE, errors |-> <<>>,
                     warnings |-> <<>>, sorries |-> <<>>, system_errors |-> "",
                     verify_time |-> 0]

InitExtract ==
    /\ ProcIdle
    /\ FormatIdle
    /\ xpc = "in"
    /\ extracted = Return(<<>>)
    /\ \/ response \in GenResponses /\ header \in FewHeaders
       \/ response \in {Str(t) : t \in FewTexts} /\ header \in GenHeaders

ExtractCall ==
    /\ xpc = "in"
    /\ extracted' = extract_lean_code(response, header)
    /\ xpc' = "out"
    /\ UNCHANGED <<response, header, procVars, formatVars>>

NextExtract == ExtractCall

SpecExtract == InitExtract /\ [][NextExtract]_vars

----------------------------------------------------------------------------
(* Inputs of process_jsonl_file *)

NoIdx == 0 - 1      \* the entry has no 'idx' key

Malformed == [json |-> FALSE, idx |-> NoIdx, formal_statement |-> <<>>,
              response |-> Str(<<>>)]
EntryA == [json |-> TRUE, idx |-> 10, formal_statement |-> <<"a", " ", ":", "=", " ", "s", "o", "r", "r", "y">>,
           response |-> Str(<<"'", "'", "'", "l", "e", "a", "n", "4", "\n", "a", " ", ":", "=", " ", "h", "\n", "'", "'", "'">>)]
EntryB == [json |-> TRUE, idx |-> NoIdx, formal_statement |-> <<"b", " ", ":", "=", "\n", "s", "o", "r", "r", "y">>,
           response |-> Str(<<"'", "'", "'", "l", "e", "a", "n", "\n", "b", " ", ":", "=", " ", "g", "'", "'", "'">>)]
\* no 'idx' key: its record is numbered by its input position
EntryNoCode == [json |-> TRUE, idx |-> NoIdx, formal_statement |-> <<"c", " ", ":", "=", " ", "s", "o", "r", "r", "y">>,
                response |-> Str(<<"n", "o">>)]
EntryFatal == [json |-> TRUE, idx |-> 40, formal_statement |-> <<"d", " ", ":", "=", " ", "b", "y", " ", "s", "o", "r", "r", "y">>,
               response |-> Str(<<"'", "'", "'", "l", "e", "a", "n", "4", "\n", "d", " ", ":", "=", " ", "b", "y", " ", "f", "\n", "'", "'", "'">>)]

LineKinds == {Malformed, EntryA, EntryB, EntryNoCode, EntryFatal}

RECURSIVE SeqsUpTo(_, _)
\* the sequences over S of length at most n
SeqsUpTo(S, n) ==
    IF n = 0 THEN {<<>>}
    ELSE LET P == SeqsUpTo(S, n - 1) IN P \cup {Append(p, s) : p \in P, s \in S}

MaxEntriesArgs == {0, 2}

\* the outcomes the service may produce for a job
Diag(l, c, d) == [line |-> l, column |-> c, data |-> d]
OutComplete == [pass |-> TRUE, complete |-> TRUE, errors |-> <<>>,
                warnings |-> <<>>, sorries |-> <<>>, system_errors |-> "",
                verify_time |-> 2]
OutIssues == [pass |-> TRUE, complete |-> FALSE, errors |-> <<>>,
              warnings |-> <<Diag(1, 0, "unused")>>, sorries |-> <<"s1">>,
              system_errors |-> "", verify_time |-> 3]
OutFail == [pass |-> FALSE, complete |-> FALSE,
            errors |-> <<Diag(1, 2, "type mismatch")>>, warnings |-> <<>>,
            sorries |-> <<>>, system_errors |-> "", verify_time |-> 1]
OutSystem == [pass |-> TRUE, complete |-> TRUE, errors |-> <<>>,
              warnings |-> <<>>, sorries |-> <<>>, system_errors |-> "timeout",
              verify_time |-> 9]

Outcomes == {OutComplete, OutIssues, OutFail, OutSystem}

Perms(n) == {p \in [1..n -> 1..n] : \A a, b \in 1..n : p[a] = p[b] => a = b}

----------------------------------------------------------------------------
(* format_error_check: the text is a sequence of string pieces *)

RECURSIVE join(_, _)
\* sep.join(parts)
join(sep, parts) ==
    IF parts = <<>> THEN <<>>
    ELSE IF Len(parts) = 1 THEN parts[1]
    ELSE parts[1] \o sep \o join(sep, Tail(parts))

detail(word, n, d) ==
    <<word, ToString(n), " (line ", ToString(d.line), ", col ",
      ToString(d.column), "): ", d.data>>

\* format_error_check with the warnings section placed before the compiler errors
format_error_check_warnings_first(output, status) ==
    IF status = "NO_CODE_FOUND"
    THEN <<"NO_CODE_FOUND: No Lean code extracted from response">>
    ELSE
    LET errors == output.errors
        warnings == output.warnings
        sorries == output.sorries
        system_errors == output.system_errors
        p1 == IF system_errors # ""
              THEN <<(<<"SYSTEM_ERRORS: ", system_errors>>)>> ELSE <<>>
        p2 == IF errors # <<>>
              THEN <<(<<"LEAN_ERRORS:\n">> \o join(<<"\n">>,
                      [n \in 1..Len(errors) |-> detail("Error ", n, errors[n])]))>>
              ELSE <<>>
        p3 == IF warnings # <<>>
              THEN <<(<<"WARNINGS:\n">> \o join(<<"\n">>,
                      [n \in 1..Len(warnings) |-> detail("Warning ", n, warnings[n])]))>>
              ELSE <<>>
        p4 == IF sorries # <<>>
              THEN <<(<<"SORRIES: ", ToString(Len(sorries)),
                       " sorry statements found: ">> \o sorries)>>
              ELSE <<>>
        error_parts == p1 \o p3 \o p2 \o p4
    IN IF error_parts = <<>>
       THEN IF status = "COMPLETE"
            THEN <<"SUCCESS: Proof verified successfully">>
            ELSE IF status = "PASS_WITH_ISSUES"
            THEN <<"PASS_WITH_ISSUES: Code compiles but may have minor issues">>
            ELSE <<"UNKNOWN: No specific errors found but verification failed">>
       ELSE join(<<"\n\n">>, error_parts)

format_error_check(output, status) ==
    IF status = "NO_CODE_FOUND"
    THEN <<"NO_CODE_FOUND: No Lean code extracted from response">>
    ELSE
    LET errors == output.errors
        warnings == output.warnings
        sorries == output.sorries
        system_errors == output.system_errors
        p1 == IF system_errors # ""
              THEN <<(<<"SYSTEM_ERRORS: ", system_errors>>)>> ELSE <<>>
        p2 == IF errors # <<>>
              THEN <<(<<"LEAN_ERRORS:\n">> \o join(<<"\n">>,
                      [n \in 1..Len(errors) |-> detail("Error ", n, errors[n])]))>>
              ELSE <<>>
        p3 == IF warnings # <<>>
              THEN <<(<<"WARNINGS:\n">> \o join(<<"\n">>,
                      [n \in 1..Len(warnings) |-> detail("Warning ", n, warnings[n])]))>>
              ELSE <<>>
        p4 == IF sorries # <<>>
              THEN <<(<<"SORRIES: ", ToString(Len(sorries)),
                       " sorry statements found: ">> \o sorries)>>
              ELSE <<>>
        error_parts == p1 \o p2 \o p3 \o p4
    IN IF error_parts = <<>>
       THEN IF status = "COMPLETE"
            THEN <<"SUCCESS: Proof verified successfully">>
            ELSE IF status = "PASS_WITH_ISSUES"
            THEN <<"PASS_WITH_ISSUES: Code compiles but may have minor issues">>
            ELSE <<"UNKNOWN: No specific errors found but verification failed">>
       ELSE join(<<"\n\n">>, error_parts)

----------------------------------------------------------------------------
(* process_jsonl_file *)

\* entry.get('idx', i)
get_idx(entry, n) == IF entry.idx = NoIdx THEN n ELSE entry.idx

\* lines[:max_entries] if max_entries else lines
cut(ls, m) ==
    IF m # 0 THEN SubSeq(ls, 1, IF m < Len(ls) THEN m ELSE Len(ls)) ELSE ls

\* lines 146-152: the record of an entry that yielded no code (n is Python's i)
placeholder_record(entry, n) ==
    [idx |-> get_idx(entry, n),
     formal_statement |-> entry.formal_statement,
     response |-> entry.response,
     verified_lean_code |-> <<>>,
     verification_pass |-> FALSE,
     verification_complete |-> FALSE,
     verification_status |-> "NO_CODE_FOUND",
     errors |-> 0, warnings |-> 0, sorries |-> 0, verify_time |-> 0,
     error_check |-> <<"NO_CODE_FOUND: No Lean code extracted from response">>]

\* classify testing the complete flag before the infrastructure error
classify_complete_first(output) ==
    IF output.complete THEN "COMPLETE"
    ELSE IF output.system_errors # "" THEN "SYSTEM_ERROR"
    ELSE IF output.pass THEN "PASS_WITH_ISSUES"
    ELSE "FAIL"

\* lines 164-167
classify(output) ==
    IF output.system_errors # "" THEN "SYSTEM_ERROR"
    ELSE IF output.complete THEN "COMPLETE"
    ELSE IF output.pass THEN "PASS_WITH_ISSUES"
    ELSE "FAIL"

\* lines 169-183: the record of a verified entry
\* the record of a verified entry carrying the skeleton as its source
verified_record_header(entry, n, lean_code, output) ==
    LET status == classify(output) IN
    [idx |-> get_idx(entry, n),
     formal_statement |-> entry.formal_statement,
     response |-> entry.response,
     verified_lean_code |-> entry.formal_statement,
     verification_pass |-> output.pass,
     verification_complete |-> output.complete,
     verification_status |-> status,
     errors |-> Len(output.errors),
     warnings |-> Len(output.warnings),
     sorries |-> Len(output.sorries),
     verify_time |-> output.verify_time,
     error_check |-> format_error_check(output, status),
     full_verifier_output |-> output]

verified_record(entry, n, lean_code, output) ==
    LET status == classify(output) IN
    [idx |-> get_idx(entry, n),
     formal_statement |-> entry.formal_statement,
     response |-> entry.response,
     verified_lean_code |-> lean_code,
     verification_pass |-> output.pass,
     verification_complete |-> output.complete,
     verification_status |-> status,
     errors |-> Len(output.errors),
     warnings |-> Len(output.warnings),
     sorries |-> Len(output.sorries),
     verify_time |-> output.verify_time,
     error_check |-> format_error_check(output, status),
     full_verifier_output |-> output]

\* Lean4ServerScheduler.submit_request: the handle is the job's number
submit_request(s, code) ==
    [s EXCEPT !.submitted = Append(@, code),
              !.late = IF s.closed > 0 THEN @ + 1 ELSE @]

\* Lean4ServerScheduler.get_all_request_outputs, with the outcome each job
\* produced
get_all_request_outputs(s, rids, produced) ==
    [s EXCEPT !.awaited = Append(@, rids),
              !.produced = produced,
              !.late = IF s.closed > 0 THEN @ + 1 ELSE @]

\* Lean4ServerScheduler.close
close(s) == [s EXCEPT !.closed = @ + 1]

\* the submission test accepting every extraction result
has_code_always(lean_code) == TRUE

\* the submission loop tests lean_code.strip()
has_code(lean_code) == strip(lean_code) # <<>>

Init ==
    /\ pc = "start"
    /\ lean_workspace_ok \in BOOLEAN
    /\ file_readable \in BOOLEAN
    /\ file_lines \in SeqsUpTo(LineKinds, MaxLines)
    /\ max_entries \in MaxEntriesArgs
    /\ lines = <<>>
    /\ i = 0
    /\ entries = <<>>
    /\ request_ids = <<>>
    /\ results = <<>>
    /\ outputs = <<>>
    /\ k = 0
    /\ scheduler = [acquired |-> 0, closed |-> 0, submitted |-> <<>>,
                    awaited |-> <<>>, produced |-> <<>>, late |-> 0]
    /\ exc = ""
    /\ returned = [has |-> FALSE, value |-> <<>>]
    /\ output_file = [written |-> FALSE, records |-> <<>>]
    /\ response = Str(<<>>)
    /\ header = <<>>
    /\ extracted = Return(<<>>)
    /\ xpc = "idle"
    /\ FormatIdle

\* the scheduler constructed before the workspace is looked at
CheckWorkspace_AcquireFirst ==
    /\ pc = "start"
    /\ scheduler' = [scheduler EXCEPT !.acquired = @ + 1]
    /\ IF ~lean_workspace_ok
       THEN /\ pc' = "done"
            /\ returned' = [has |-> TRUE, value |-> <<>>]
       ELSE /\ pc' = "open"
            /\ UNCHANGED returned
    /\ UNCHANGED <<lean_workspace_ok, file_readable, file_lines, max_entries,
                   lines, i, entries, request_ids, results, outputs, k, exc,
                   output_file, extractVars, formatVars>>

\* lines 98-111: the workspace check, then the scheduler is constructed
CheckWorkspace ==
    /\ pc = "start"
    /\ IF ~lean_workspace_ok
       THEN /\ pc' = "done"
            /\ returned' = [has |-> TRUE, value |-> <<>>]
            /\ UNCHANGED scheduler
       ELSE /\ pc' = "open"
            /\ scheduler' = [scheduler EXCEPT !.acquired = @ + 1]
            /\ UNCHANGED returned
    /\ UNCHANGED <<lean_workspace_ok, file_readable, file_lines, max_entries,
                   lines, i, entries, request_ids, results, outputs, k, exc,
                   output_file, extractVars, formatVars>>

\* lines 113-121: the file is read and cut to max_entries
ReadLines ==
    /\ pc = "open"
    /\ IF file_readable
       THEN /\ lines' = cut(file_lines, max_entries)
            /\ pc' = "submit"
            /\ UNCHANGED exc
       ELSE /\ exc' = "OSError"
            /\ pc' = "finally"
            /\ UNCHANGED lines
    /\ UNCHANGED <<lean_workspace_ok, file_readable, file_lines, max_entries,
                   i, entries, request_ids, results, outputs, k, scheduler,
                   returned, output_file, extractVars, formatVars>>

\* lines 123-152: one iteration of the submission loop; submit_raises is the
\* service's choice to fail the submit_request call
SubmitStep(submit_raises) ==
    /\ pc = "submit"
    /\ i < Len(lines)
    /\ LET line == lines[i + 1] IN
       IF ~line.json
       THEN /\ i' = i + 1
            /\ UNCHANGED <<pc, entries, request_ids, results, scheduler, exc>>
       ELSE LET entry == line
                lean_code == extract_lean_code(entry.response, entry.formal_statement)
            IN /\ entries' = Append(entries, entry)
               /\ IF lean_code.tag = "ValueError"
                  THEN /\ exc' = "ValueError"
                       /\ pc' = "finally"
                       /\ UNCHANGED <<i, request_ids, results, scheduler>>
                  ELSE IF has_code(lean_code.text)
                  THEN IF submit_raises
                       THEN /\ exc' = "SubmitError"
                            /\ pc' = "finally"
                            /\ UNCHANGED <<i, request_ids, results, scheduler>>
                       ELSE /\ scheduler' = submit_request(scheduler, lean_code.text)
                            /\ request_ids' = Append(request_ids,
                                   [rid |-> Len(scheduler.submitted) + 1,
                                    i |-> i, lean_code |-> lean_code.text])
                            /\ i' = i + 1
                            /\ UNCHANGED <<pc, results, exc>>
                  ELSE /\ results' = Append(results, placeholder_record(entry, i))
                       /\ i' = i + 1
                       /\ UNCHANGED <<pc, request_ids, scheduler, exc>>
    /\ UNCHANGED <<lean_workspace_ok, file_readable, file_lines, max_entries,
                   lines, outputs, k, returned, output_file, extractVars, formatVars>>

\* line 154 with no request submitted: the zip loop is skipped
NoRequests ==
    /\ pc = "submit"
    /\ i = Len(lines)
    /\ request_ids = <<>>
    /\ pc' = "finally"
    /\ UNCHANGED <<lean_workspace_ok, file_readable, file_lines, max_entries,
                   lines, i, entries, request_ids, results, outputs, k,
                   scheduler, exc, returned, output_file, extractVars, formatVars>>

\* the order in which the service lists the outcomes of the awaited handles
return_order(n) == Perms(n)

\* the wait issued as soon as a request is outstanding, before the loop ends
Await_Early ==
    /\ pc = "submit"
    /\ request_ids # <<>>
    /\ LET n == Len(request_ids)
           rids == [j \in 1..n |-> request_ids[j].rid]
       IN \/ /\ exc' = "AwaitError"
             /\ pc' = "finally"
             /\ scheduler' = get_all_request_outputs(scheduler, rids, <<>>)
             /\ UNCHANGED <<outputs, k>>
          \/ \E produced \in [1..n -> Outcomes], order \in Perms(n) :
             /\ scheduler' = get_all_request_outputs(scheduler, rids, produced)
             /\ outputs' = [j \in 1..n |-> produced[rids[order[j]]]]
             /\ k' = 0
             /\ pc' = "zip"
             /\ UNCHANGED exc
    /\ UNCHANGED <<lean_workspace_ok, file_readable, file_lines, max_entries,
                   lines, i, entries, request_ids, results, returned,
                   output_file, extractVars, formatVars>>

\* lines 154-155: the one blocking wait; the service produces an outcome per
\* job and returns them as a list, or the call raises
Await ==
    /\ pc = "submit"
    /\ i = Len(lines)
    /\ request_ids # <<>>
    /\ LET n == Len(request_ids)
           rids == [j \in 1..n |-> request_ids[j].rid]
       IN \/ /\ exc' = "AwaitError"
             /\ pc' = "finally"
             /\ scheduler' = get_all_request_outputs(scheduler, rids, <<>>)
             /\ UNCHANGED <<outputs, k>>
          \/ \E produced \in [1..n -> Outcomes], order \in return_order(n) :
             /\ scheduler' = get_all_request_outputs(scheduler, rids, produced)
             /\ outputs' = [j \in 1..n |-> produced[rids[order[j]]]]
             /\ k' = 0
             /\ pc' = "zip"
             /\ UNCHANGED exc
    /\ UNCHANGED <<lean_workspace_ok, file_readable, file_lines, max_entries,
                   lines, i, entries, request_ids, results, returned,
                   output_file, extractVars, formatVars>>

Min(a, b) == IF a < b THEN a ELSE b

\* lines 157-183: one iteration over zip(request_ids, outputs)
ZipStep ==
    /\ pc = "zip"
    /\ k < Min(Len(request_ids), Len(outputs))
    /\ LET req == request_ids[k + 1]
           output == outputs[k + 1]
       IN IF req.i >= Len(entries)
          THEN /\ exc' = "IndexError"
               /\ pc' = "finally"
               /\ UNCHANGED <<k, results>>
          ELSE /\ results' = Append(results,
                     verified_record(entries[req.i + 1], req.i, req.lean_code, output))
               /\ k' = k + 1
               /\ UNCHANGED <<pc, exc>>
    /\ UNCHANGED <<lean_workspace_ok, file_readable, file_lines, max_entries,
                   lines, i, entries, request_ids, outputs, scheduler,
                   returned, output_file, extractVars, formatVars>>

\* the zip loop is exhausted
ZipEnd ==
    /\ pc = "zip"
    /\ k = Min(Len(request_ids), Len(outputs))
    /\ pc' = "finally"
    /\ UNCHANGED <<lean_workspace_ok, file_readable, file_lines, max_entries,
                   lines, i, entries, request_ids, results, outputs, k,
                   scheduler, exc, returned, output_file, extractVars, formatVars>>

\* the scheduler closed at the end of the try body instead of in finally
Finally_CloseOnSuccessOnly ==
    /\ pc = "finally"
    /\ scheduler' = IF exc = "" THEN close(scheduler) ELSE scheduler
    /\ pc' = IF exc # "" THEN "raised" ELSE "summary"
    /\ UNCHANGED <<lean_workspace_ok, file_readable, file_lines, max_entries,
                   lines, i, entries, request_ids, results, outputs, k, exc,
                   returned, output_file, extractVars, formatVars>>

\* the finally clause swallowing the exception in flight
Finally_Swallow ==
    /\ pc = "finally"
    /\ scheduler' = close(scheduler)
    /\ pc' = "summary"
    /\ UNCHANGED <<lean_workspace_ok, file_readable, file_lines, max_entries,
                   lines, i, entries, request_ids, results, outputs, k, exc,
                   returned, output_file, extractVars, formatVars>>

\* lines 184-185: the finally clause, then the exception (if any) propagates
Finally ==
    /\ pc = "finally"
    /\ scheduler' = close(scheduler)
    /\ pc' = IF exc # "" THEN "raised" ELSE "summary"
    /\ UNCHANGED <<lean_workspace_ok, file_readable, file_lines, max_entries,
                   lines, i, entries, request_ids, results, outputs, k, exc,
                   returned, output_file, extractVars, formatVars>>

\* lines 187-203: the summary is printed, the results are saved and returned
SaveAndReturn ==
    /\ pc = "summary"
    /\ output_file' = [written |-> TRUE, records |-> results]
    /\ returned' = [has |-> TRUE, value |-> results]
    /\ pc' = "done"
    /\ UNCHANGED <<lean_workspace_ok, file_readable, file_lines, max_entries,
                   lines, i, entries, request_ids, results, outputs, k,
                   scheduler, exc, extractVars, formatVars>>

Next ==
    \/ CheckWorkspace
    \/ ReadLines
    \/ \E submit_raises \in BOOLEAN : SubmitStep(submit_raises)
    \/ NoRequests
    \/ Await
    \/ ZipStep
    \/ ZipEnd
    \/ Finally
    \/ SaveAndReturn

Spec == Init /\ [][Next]_vars

----------------------------------------------------------------------------
(* Properties of process_jsonl_file *)

\* the record appended for the j-th (request, output) pair: the verified
\* records follow the placeholder records in the results list
VerifiedRecord(j) == results[Len(results) - k + j]

Terminated == pc \in {"done", "raised"}

ServiceFailed == exc \in {"OSError", "SubmitError", "AwaitError"}

\* the lines (1-based) fully processed by the submission loop that yielded
\* no code
NoCodeLines ==
    {n \in 1..i : /\ lines[n].json
                  /\ extract_lean_code(lines[n].response,
                                       lines[n].formal_statement) = Return(<<>>)}

\* the 0-based input position of the entry behind the m-th record
Origin(m) ==
    IF m <= Len(results) - k
    THEN (CHOOSE n \in NoCodeLines : Cardinality({x \in NoCodeLines : x <= n}) = m) - 1
    ELSE request_ids[m - (Len(results) - k)].i

\* C1: every run over a batch that the service does not fail ends by
\* returning a list with exactly one record per parseable input line,
\* whatever the lines are (malformed, no code, fatal extraction, verified).
C1_OneRecordPerParseableLine ==
    (Terminated /\ lean_workspace_ok /\ ~ServiceFailed)
        => /\ returned.has
           /\ Len(returned.value) = Cardinality({n \in 1..Len(lines) : lines[n].json})

\* C2: whatever order the service returns the outcomes in, the record built
\* for a request carries the outcome the service produced for that request's
\* handle.
C2_OutcomeFollowsHandle ==
    \A j \in 1..k :
        VerifiedRecord(j).full_verifier_output = scheduler.produced[request_ids[j].rid]

\* C3: malformed lines never make the run raise, and every verified record
\* carries the identifier, skeleton and response of the entry whose extracted
\* code was submitted.
C3_MalformedLinesHarmless ==
    /\ exc # "IndexError"
    /\ \A j \in 1..k :
        LET req == request_ids[j]
            entry == lines[req.i + 1]
            r == VerifiedRecord(j)
        IN /\ r.idx = get_idx(entry, req.i)
           /\ r.formal_statement = entry.formal_statement
           /\ r.response = entry.response

\* C4: the returned records are in the order of the input entries: the
\* record of an earlier entry precedes the record of a later one.
C4_RecordsInInputOrder ==
    (pc = "done" /\ lean_workspace_ok)
        => \A a, b \in 1..Len(results) : a < b => Origin(a) < Origin(b)

\* C5: a run that acquires the service releases it exactly once on every
\* path, only after the submission and zip loops are over, and no submit or
\* await call follows the release.
C5_ReleasedExactlyOnce ==
    /\ scheduler.acquired <= 1
    /\ scheduler.closed <= scheduler.acquired
    /\ scheduler.late = 0
    /\ (Terminated /\ scheduler.acquired = 1) => scheduler.closed = 1
    /\ scheduler.closed = 1 => pc \in {"summary", "done", "raised"}
    /\ (scheduler.closed = 1 /\ exc = "") => k = Len(request_ids)

C5_Witness ==
    /\ pc = "raised"
    /\ exc = "ValueError"
    /\ scheduler.submitted # <<>>
    /\ scheduler.closed = 1

\* the declarative reading of "the response has no fenced block of either
\* dialect": no turn contains the opening of a lean fence
NoFence(r) ==
    \A t \in 1..Len(r.turns) :
        \A a \in 1..Len(r.turns[t]) : ~MatchAt(r.turns[t], fence_lean, a)

\* C9: an entry whose response has no fenced block extracts to the empty
\* string, is never submitted, and gets a record with status NO_CODE_FOUND,
\* elapsed time 0, false flags and zero counts.
C9_NoFenceNoCodeFound ==
    \A n \in 1..i :
        (lines[n].json /\ NoFence(lines[n].response)) =>
            /\ extract_lean_code(lines[n].response, lines[n].formal_statement)
                   = Return(<<>>)
            /\ \A j \in 1..Len(request_ids) : request_ids[j].i # n - 1
            /\ n \in NoCodeLines
            /\ LET r == results[Cardinality({x \in NoCodeLines : x <= n})]
               IN /\ r.verification_status = "NO_CODE_FOUND"
                  /\ r.verify_time = 0
                  /\ r.verification_pass = FALSE
                  /\ r.verification_complete = FALSE
                  /\ r.errors = 0 /\ r.warnings = 0 /\ r.sorries = 0
                  /\ r.formal_statement = lines[n].formal_statement
                  /\ r.response = lines[n].response
            /\ Len(scheduler.submitted) = Len(request_ids)

C9_Witness ==
    /\ pc = "done"
    /\ scheduler.submitted # <<>>
    /\ \E n \in 1..Len(lines) : lines[n].json /\ NoFence(lines[n].response)
    /\ \E m \in 1..Len(returned.value) :
           returned.value[m].verification_status = "NO_CODE_FOUND"

\* C10: the status of a verified record is the first match of: infrastructure
\* error text present, SYSTEM_ERROR; complete, COMPLETE; pass,
\* PASS_WITH_ISSUES; otherwise FAIL.
C10_StatusPrecedence ==
    \A j \in 1..k :
        LET r == VerifiedRecord(j)
            o == r.full_verifier_output
            s == r.verification_status
        IN /\ o.system_errors # "" => s = "SYSTEM_ERROR"
           /\ (o.system_errors = "" /\ o.complete) => s = "COMPLETE"
           /\ (o.system_errors = "" /\ ~o.complete /\ o.pass) => s = "PASS_WITH_ISSUES"
           /\ (o.system_errors = "" /\ ~o.complete /\ ~o.pass) => s = "FAIL"

C10_Witness ==
    /\ pc = "done"
    /\ \E j \in 1..k :
        LET r == VerifiedRecord(j) IN
        /\ r.full_verifier_output.system_errors # ""
        /\ r.full_verifier_output.complete
        /\ r.verification_status = "SYSTEM_ERROR"

----------------------------------------------------------------------------
(* Properties of extract_lean_code *)

\* the excerpt the call works on
Excerpt == extracted_code(response_text(response))

\* some position of the text holds the assignment operator
HasAssign(code) ==
    \E a \in 1..Len(code) : a < Len(code) /\ code[a] = ":" /\ code[a + 1] = "="

\* the positions where an occurrence of the placeholder pattern starts: the
\* assignment operator, any run of whitespace, the incomplete-proof token
PlaceholderStarts(h) ==
    {a \in 1..Len(h) :
        \E w \in 0..Len(h) :
            /\ MatchAt(h, assign, a)
            /\ \A j \in 1..w : a + 1 + j <= Len(h) /\ IsSpace(h[a + 1 + j])
            /\ MatchAt(h, sorry, a + 2 + w)}

\* t is h without its leading and trailing whitespace
IsTrimOf(t, h) ==
    \E a, b \in 0..Len(h) :
        /\ a + b <= Len(h)
        /\ t = SubSeq(h, a + 1, Len(h) - b)
        /\ \A j \in 1..a : IsSpace(h[j])
        /\ \A j \in (Len(h) - b + 1)..Len(h) : IsSpace(h[j])
        /\ t # <<>> => (~IsSpace(t[1]) /\ ~IsSpace(t[Len(t)]))
        /\ t = <<>> => a + b = Len(h)

\* C6 as stated: the skeleton "theorem t : P := by sorry" and a response
\* with the strict fenced block "theorem t : P := by exact h" extract to
\* "theorem t : P := by exact h".
C6_RoundTripAsStated ==
    (xpc = "out" /\ header = Skel6 /\ response_text(response) = Resp6)
        => extracted = Return(Block6)

\* C6 amended: with the skeleton "theorem t : P := sorry" the response's block
\* is returned; with "theorem t : P := by sorry", which holds no occurrence of
\* the placeholder pattern, the call raises.
C6_RoundTrip ==
    (xpc = "out" /\ response_text(response) = Resp6)
        => /\ header = Skel6b => extracted = Return(Block6)
           /\ header = Skel6 => extracted = Raise

C6_Witness ==
    /\ xpc = "out"
    /\ header = Skel6b
    /\ response = Str(Resp6)
    /\ extracted = Return(Block6)

\* C7: when the excerpt holds an assignment operator and the skeleton holds
\* zero, or two or more, placeholder occurrences, the call raises and
\* returns no text.
C7_AmbiguousPlaceholderIsFatal ==
    (xpc = "out" /\ HasAssign(Excerpt) /\ Cardinality(PlaceholderStarts(header)) # 1)
        => extracted.tag = "ValueError" /\ extracted.text = <<>>

C7_Witness ==
    /\ xpc = "out"
    /\ HasAssign(Excerpt)
    /\ Cardinality(PlaceholderStarts(header)) >= 2
    /\ extracted.tag = "ValueError"

\* C8: when a non-empty excerpt holds no assignment operator, the call
\* returns the skeleton trimmed, whatever the number of placeholders in it.
C8_NoAssignReturnsSkeleton ==
    (xpc = "out" /\ Excerpt # <<>> /\ ~HasAssign(Excerpt))
        => extracted.tag = "return" /\ IsTrimOf(extracted.text, header)

C8_Witness ==
    /\ xpc = "out"
    /\ Excerpt # <<>>
    /\ ~HasAssign(Excerpt)
    /\ Cardinality(PlaceholderStarts(header)) >= 2
    /\ extracted.tag = "return"
    /\ extracted.text # <<>>

----------------------------------------------------------------------------
(* Further properties of process_jsonl_file *)

\* the line (1-based) holds an entry whose extraction raises
FatalLine(n) ==
    /\ lines[n].json
    /\ extract_lean_code(lines[n].response, lines[n].formal_statement) = Raise

\* C11: a fatal extraction propagates out of the run and interrupts the
\* batch: the loop stops at that entry, nothing later is extracted or
\* submitted, the requests already submitted are never awaited, and nothing
\* is returned or saved.
C11_FatalExtractionAbortsBatch ==
    /\ exc = "ValueError" =>
          /\ pc \in {"finally", "raised"}
          /\ i < Len(lines) /\ FatalLine(i + 1)
          /\ Len(entries) = Cardinality({n \in 1..(i + 1) : lines[n].json})
          /\ Len(scheduler.submitted) = Len(request_ids)
          /\ \A j \in 1..Len(request_ids) : request_ids[j].i < i
          /\ scheduler.awaited = <<>>
          /\ outputs = <<>>
          /\ ~returned.has
          /\ ~output_file.written
    /\ (Terminated /\ lean_workspace_ok /\ file_readable
            /\ \E n \in 1..Len(lines) : FatalLine(n))
          => pc = "raised" /\ ~returned.has /\ ~output_file.written

C11_Witness ==
    /\ pc = "raised"
    /\ exc = "ValueError"
    /\ request_ids # <<>>
    /\ i + 1 < Len(lines)
    /\ lines[i + 2].json

\* C12: an infrastructure failure the service reports for a job is recorded
\* as SYSTEM_ERROR on the record of the entry that submitted that job, and on
\* no other record.
C12_InfraFailureStaysOnItsEntry ==
    \A j \in 1..k :
        (scheduler.produced[request_ids[j].rid].system_errors # "")
            <=> (VerifiedRecord(j).verification_status = "SYSTEM_ERROR")

\* what every run keeps: at most one await, issued when the submission loop
\* is over and naming each submitted handle once; one submission per entry
AwaitDiscipline ==
    /\ Len(scheduler.awaited) <= 1
    /\ scheduler.awaited # <<>> =>
          /\ i = Len(lines)
          /\ scheduler.awaited[1] = [j \in 1..Len(scheduler.submitted) |-> j]
    /\ Len(scheduler.submitted) = Len(request_ids)
    /\ \A a, b \in 1..Len(request_ids) :
          a # b => /\ request_ids[a].i # request_ids[b].i
                   /\ request_ids[a].rid # request_ids[b].rid

\* C13 as stated: in every run all submissions precede the single await,
\* which names every handle once, no entry is submitted twice, and the await
\* is issued exactly once whenever a request was submitted.
C13_OneAwaitAsStated ==
    /\ AwaitDiscipline
    /\ (Terminated /\ ~ServiceFailed /\ scheduler.submitted # <<>>)
          => Len(scheduler.awaited) = 1

\* C13 amended: the await is issued exactly once whenever a request was
\* submitted and the submission loop ran to its end; a run whose loop is cut
\* short by an exception issues none.
C13_OneAwaitAfterLoop ==
    /\ AwaitDiscipline
    /\ (Terminated /\ scheduler.submitted # <<>> /\ i = Len(lines))
          => Len(scheduler.awaited) = 1
    /\ (Terminated /\ i < Len(lines)) => scheduler.awaited = <<>>

C13_Witness ==
    /\ pc = "done"
    /\ Len(scheduler.submitted) >= 2
    /\ Len(scheduler.awaited) = 1
    /\ results # <<>>

----------------------------------------------------------------------------
(* Further properties of extract_lean_code *)

\* the positions where p occurs in t
Occ(t, p) == {a \in 1..Len(t) : MatchAt(t, p, a)}

MaxOf(S) == CHOOSE x \in S : \A y \in S : y <= x
MinOf(S) == CHOOSE x \in S : \A y \in S : x <= y

\* h without its leading and trailing whitespace
Trimmed(h) ==
    LET inked == {j \in 1..Len(h) : ~IsSpace(h[j])} IN
    IF inked = {} THEN <<>> ELSE SubSeq(h, MinOf(inked), MaxOf(inked))

\* the text from position a up to the next fence-close, or to the end
FenceContent(t, a) ==
    LET closes == {b \in Occ(t, fence) : b >= a} IN
    IF closes = {} THEN From(t, a) ELSE SubSeq(t, a, MinOf(closes) - 1)

\* the first position after the last marker that holds no whitespace
AfterMarker(t) ==
    LET m == MaxOf(Occ(t, marker)) + Len(marker) IN
    MinOf({a \in m..(Len(t) + 1) : a = Len(t) + 1 \/ ~IsSpace(t[a])})

RuleMarker(t) == Occ(t, marker) # {} /\ MatchAt(t, fence_lean4, AfterMarker(t))
RuleStrict(t) == Occ(t, fence_lean4) # {}
RuleLoose(t) == Occ(t, fence_lean) # {}

MarkerContent(t) == Trimmed(FenceContent(t, AfterMarker(t) + Len(fence_lean4)))
StrictContent(t) ==
    Trimmed(FenceContent(t, MaxOf(Occ(t, fence_lean4)) + Len(fence_lean4)))
LooseContent(t) ==
    Trimmed(FenceContent(t, MaxOf(Occ(t, fence_lean)) + Len(fence_lean)))

\* the excerpt by first matching rule
ExcerptFirstMatch(t) ==
    IF RuleMarker(t) THEN MarkerContent(t)
    ELSE IF RuleStrict(t) THEN StrictContent(t)
    ELSE IF RuleLoose(t) THEN LooseContent(t)
    ELSE <<>>

\* the excerpt when an empty fence after the marker falls through to the
\* scan of the whole text
ExcerptFallThrough(t) ==
    IF RuleMarker(t) /\ MarkerContent(t) # <<>> THEN MarkerContent(t)
    ELSE IF RuleStrict(t) THEN StrictContent(t)
    ELSE IF RuleLoose(t) THEN LooseContent(t)
    ELSE <<>>

NoRule(t) == ~RuleMarker(t) /\ ~RuleStrict(t) /\ ~RuleLoose(t)

\* C15 as stated: the excerpt of a text response is the trimmed content of
\* the fence picked by the first matching rule (fence after the marker, last
\* strict fence, last loose fence), and extraction yields the empty string
\* when no rule matches.
C15_FirstMatchingRuleAsStated ==
    (xpc = "out" /\ ~response.isList) =>
        /\ Excerpt = ExcerptFirstMatch(response.turns[1])
        /\ NoRule(response.turns[1]) => extracted = Return(<<>>)

\* C15 amended: the fence after the marker is used only when its trimmed
\* content is not empty; otherwise the last strict fence of the whole text,
\* otherwise the last loose fence; the empty string when no rule matches.
C15_FirstNonEmptyRule ==
    (xpc = "out" /\ ~response.isList) =>
        /\ Excerpt = ExcerptFallThrough(response.turns[1])
        /\ NoRule(response.turns[1]) => extracted = Return(<<>>)

C15_Witness ==
    /\ xpc = "out"
    /\ response = Str(RespEmptyMarkerFence)
    /\ Excerpt = StrictContent(RespEmptyMarkerFence)
    /\ Excerpt # <<>>
    /\ MarkerContent(RespEmptyMarkerFence) = <<>>

RECURSIVE LastNonEmpty(_)
\* the last non-empty turn of a sequence of turns (empty when there is none)
LastNonEmpty(ts) ==
    IF ts = <<>> THEN <<>>
    ELSE IF Last(ts) # <<>> THEN Last(ts)
    ELSE LastNonEmpty(SubSeq(ts, 1, Len(ts) - 1))

\* C14 as stated: for a list response the last non-empty turn is scanned, so
\* a list ending in an empty turn yields what its last non-empty turn yields;
\* a response that is not a list is scanned as it is.
C14_LastNonEmptyTurnAsStated ==
    xpc = "out" =>
        IF response.isList
        THEN extracted = extract_lean_code(Str(LastNonEmpty(response.turns)), header)
        ELSE extracted = extract_lean_code(Str(response.turns[1]), header)

\* C14 amended: for a list response the last turn is scanned, empty or not
\* (the empty text for an empty list), so a list ending in an empty turn
\* yields the empty string whatever its earlier turns hold; a response that
\* is not a list is scanned as it is.
C14_LastTurn ==
    xpc = "out" =>
        /\ response.isList =>
              LET n == Len(response.turns)
                  last == IF n = 0 THEN <<>> ELSE response.turns[n]
              IN /\ extracted = extract_lean_code(Str(last), header)
                 /\ last = <<>> => extracted = Return(<<>>)
        /\ ~response.isList =>
              (NoRule(response.turns[1]) => extracted = Return(<<>>))

C14_Witness ==
    /\ xpc = "out"
    /\ response = List(<<Resp6, <<>>>>)
    /\ header = Skel6b
    /\ extracted = Return(<<>>)

\* the one placeholder span <<start, end>> (end exclusive) of a skeleton with
\* exactly one occurrence
PlaceholderSpan(h) ==
    LET a == CHOOSE x \in PlaceholderStarts(h) : TRUE
        b == MinOf({x \in (a + 2)..Len(h) : ~IsSpace(h[x])})
    IN <<a, b + Len(sorry)>>

\* the trimmed content after the first assignment operator of the excerpt
BodyOf(code) == Trimmed(From(code, MinOf(Occ(code, assign)) + Len(assign)))

\* C16: when the excerpt holds an assignment operator and the skeleton holds
\* exactly one placeholder, the call returns the skeleton with that span
\* replaced by the operator, a space and the proof body (the trimmed content
\* after the excerpt's first operator), the whole trimmed; the text before
\* and after the span is kept as it is.
C16_SpliceAtThePlaceholder ==
    (xpc = "out" /\ HasAssign(Excerpt) /\ Cardinality(PlaceholderStarts(header)) = 1)
        => LET span == PlaceholderSpan(header)
               before == SubSeq(header, 1, span[1] - 1)
               after == From(header, span[2])
           IN /\ extracted.tag = "return"
              /\ extracted.text =
                    Trimmed(before \o assign \o <<" ">> \o BodyOf(Excerpt) \o after)

C16_Witness ==
    /\ xpc = "out"
    /\ HasAssign(Excerpt)
    /\ Cardinality(Occ(Excerpt, assign)) >= 2
    /\ Cardinality(PlaceholderStarts(header)) = 1
    /\ PlaceholderSpan(header)[1] > 1
    /\ PlaceholderSpan(header)[2] <= Len(header)
    /\ extracted.tag = "return"
----------------------------------------------------------------------------
(* format_error_check applied once to a generated outcome and status *)

\* the diagnostics and markers a generated outcome is built from
FmtDiags == {Diag(1, 2, "type mismatch"), Diag(3, 0, "unused")}
FmtSorries == {"s1", "s2"}
FmtSystemErrors == {"", "timeout"}
Statuses == {"NO_CODE_FOUND", "SYSTEM_ERROR", "COMPLETE", "PASS_WITH_ISSUES", "FAIL"}

GenOutputs ==
    {[pass |-> FALSE, complete |-> FALSE, errors |-> e, warnings |-> w,
      sorries |-> s, system_errors |-> y, verify_time |-> 1] :
        e \in SeqsUpTo(FmtDiags, MaxDiags), w \in SeqsUpTo(FmtDiags, MaxDiags),
        s \in SeqsUpTo(FmtSorries, MaxDiags), y \in FmtSystemErrors}

InitFormat ==
    /\ ProcIdle
    /\ response = Str(<<>>)
    /\ header = <<>>
    /\ extracted = Return(<<>>)
    /\ xpc = "idle"
    /\ fmt_output \in GenOutputs
    /\ fmt_status \in Statuses
    /\ fmt_text = <<>>
    /\ fpc = "in"

FormatCall ==
    /\ fpc = "in"
    /\ fmt_text' = format_error_check(fmt_output, fmt_status)
    /\ fpc' = "out"
    /\ UNCHANGED <<fmt_output, fmt_status, procVars, extractVars>>

NextFormat == FormatCall

SpecFormat == InitFormat /\ [][NextFormat]_vars

\* the pieces of a text that open a section: the first piece and every
\* piece that follows a blank-line separator
Heads(text) ==
    LET at == SelectSeq([p \in 1..Len(text) |-> p],
                        LAMBDA p : p = 1 \/ text[p - 1] = "\n\n")
    IN [n \in 1..Len(at) |-> text[at[n]]]

\* the openings of the sections that apply to an outcome, in the stated order
SectionHeads(output) ==
    (IF output.system_errors # "" THEN <<"SYSTEM_ERRORS: ">> ELSE <<>>)
    \o (IF output.errors # <<>> THEN <<"LEAN_ERRORS:\n">> ELSE <<>>)
    \o (IF output.warnings # <<>> THEN <<"WARNINGS:\n">> ELSE <<>>)
    \o (IF output.sorries # <<>> THEN <<"SORRIES: ">> ELSE <<>>)

FixedMessage(status) ==
    IF status = "COMPLETE" THEN <<"SUCCESS: Proof verified successfully">>
    ELSE IF status = "PASS_WITH_ISSUES"
    THEN <<"PASS_WITH_ISSUES: Code compiles but may have minor issues">>
    ELSE <<"UNKNOWN: No specific errors found but verification failed">>

\* the text is the stated assembly for this outcome and status
Assembled(output, status, text) ==
    IF SectionHeads(output) = <<>>
    THEN text = FixedMessage(status)
    ELSE /\ Heads(text) = SectionHeads(output)
         /\ text \notin {FixedMessage(s) : s \in Statuses}

----------------------------------------------------------------------------
\* C18: when the workspace path does not exist the run ends at once: the
\* service is never acquired, no line is read, no entry is extracted or
\* submitted, no record is produced or written, nothing is raised, and the
\* call returns the empty list.
C18_MissingWorkspaceExitsEarly ==
    ~lean_workspace_ok =>
        /\ pc \in {"start", "done"}
        /\ scheduler.acquired = 0
        /\ scheduler.closed = 0
        /\ scheduler.submitted = <<>>
        /\ scheduler.awaited = <<>>
        /\ lines = <<>>
        /\ i = 0
        /\ entries = <<>>
        /\ request_ids = <<>>
        /\ results = <<>>
        /\ ~output_file.written
        /\ exc = ""
        /\ (pc = "done" => returned = [has |-> TRUE, value |-> <<>>])

C18_Witness ==
    /\ pc = "done"
    /\ ~lean_workspace_ok
    /\ file_readable
    /\ Len(file_lines) = MaxLines
    /\ file_lines[1] = EntryA
    /\ returned.has

----------------------------------------------------------------------------
\* the lines (1-based) of the batch whose extraction yields nothing to submit
EmptyExtractions ==
    {n \in 1..Len(lines) :
        /\ lines[n].json
        /\ LET r == extract_lean_code(lines[n].response, lines[n].formal_statement)
           IN r.tag = "return" /\ \A p \in 1..Len(r.text) : IsSpace(r.text[p])}

\* the m-th smallest member of a set of numbers
Nth(S, m) == CHOOSE n \in S : Cardinality({x \in S : x <= n}) = m

\* C19: in the list a completed run returns, the NO_CODE_FOUND records come
\* first, one per line whose extraction was empty and in the order of those
\* lines; the verified records follow, one per submitted job and in the order
\* of submission, each carrying as its source the text submitted for that job.
C19_PlaceholdersThenVerified ==
    (pc = "done" /\ lean_workspace_ok) =>
        LET R == returned.value
            P == Cardinality(EmptyExtractions)
            V == Len(scheduler.submitted)
        IN /\ Len(R) = P + V
           /\ \A m \in 1..P :
                 LET n == Nth(EmptyExtractions, m) IN
                 /\ R[m].verification_status = "NO_CODE_FOUND"
                 /\ R[m].idx = get_idx(lines[n], n - 1)
                 /\ R[m].formal_statement = lines[n].formal_statement
                 /\ R[m].response = lines[n].response
           /\ \A j \in 1..V :
                 /\ R[P + j].verification_status # "NO_CODE_FOUND"
                 /\ R[P + j].verified_lean_code = scheduler.submitted[j]

C19_Witness ==
    /\ pc = "done"
    /\ lean_workspace_ok
    /\ Len(scheduler.submitted) = 2
    /\ scheduler.submitted[1] # scheduler.submitted[2]
    /\ lines[1] = EntryA
    /\ lines[2] = EntryNoCode
    /\ Len(returned.value) = 3
    /\ returned.value[1].verification_status = "NO_CODE_FOUND"

====
